---- MODULE Spec2Model ----
(***************************************************************************)
(* RasterPack: the Dataset object (dataset/dataset.py) and the operations  *)
(* that act on it (processes/tools/mosaic.py, clip.py, resample/*.py).      *)
(*                                                                         *)
(* Python objects live in three heaps, addressed by their position:        *)
(*   arr  - numpy arrays      (shape and cells)                            *)
(*   prof - rasterio Profile objects                                       *)
(*   dset - Dataset objects   (fields refer to arr and prof by position)   *)
(* so that two Dataset objects holding the same Profile object, or the     *)
(* same array, are two records holding the same position.                  *)
(*                                                                         *)
(* Domain of the model: transforms are north-up (b = d = 0, a > 0, e < 0)  *)
(* with integer coefficients, world coordinates are integers, and all      *)
(* arrays hold one numeric dtype (cells are integers, one of them stands   *)
(* for numpy.nan).  Half-pixel coordinates are carried doubled.            *)
(***************************************************************************)
EXTENDS Integers, Sequences, FiniteSets, TLC

\* ------------------------------------------------------------------ bounds
MaxDim == 2      \* rows / cols of a loaded array range over 1..MaxDim
MaxOff == 1      \* origin of the second grid ranges over -MaxOff..MaxOff pixels

\* ------------------------------------------------------------ Python values
NaN == 99                    \* numpy.nan as a cell / nodata value
None == <<>>                 \* an absent optional value
Some(v) == <<v>>             \* a present optional value
IsNone(o) == o = <<>>
Val(o) == o[1]

\* Python's != on two numbers, one of which may be nan (nan != nan is True)
PyNotEqual(x, y) == x = NaN \/ y = NaN \/ x # y
PyEqual(x, y) == ~PyNotEqual(x, y)

Max2(x, y) == IF x >= y THEN x ELSE y
Min2(x, y) == IF x <= y THEN x ELSE y

\* ------------------------------------------------------------------ arrays
Idx(rows, cols) == (0 .. rows - 1) \X (0 .. cols - 1)
NRows(a) == a.shape[1]       \* len(a)
NCols(a) == a.shape[2]       \* len(a[0])
\* np.ndarray(shape=...) followed by .fill(v)
Filled(rows, cols, v) ==
    [shape |-> <<rows, cols>>, data |-> [p \in Idx(rows, cols) |-> v]]

\* ------------------------------------------------------- affine transforms
\* rasterio.transform.from_origin: translation(west, north) * scale(xsize, -ysize)
from_origin(west, north, xsize, ysize) ==
    [a |-> xsize, b |-> 0, c |-> west, d |-> 0, e |-> 0 - ysize, f |-> north]

\* rasterio.transform.array_bounds, the b = d = 0 branch: (west, south, east, north)
array_bounds(height, width, t) ==
    <<t.c, t.f + t.e * height, t.c + t.a * width, t.f>>

\* rasterio.transform.xy for one pixel; the result is DOUBLED (x2 = 2x, y2 = 2y)
\* offset "center" adds half a pixel, "ul" adds nothing
xy2(t, row, col, offset) ==
    LET k == IF offset = "center" THEN 1 ELSE 0
    IN  <<t.a * (2 * col + k) + t.b * (2 * row + k) + 2 * t.c,
          t.d * (2 * col + k) + t.e * (2 * row + k) + 2 * t.f>>

\* rasterio.transform.rowcol with op = math.floor on DOUBLED world coordinates,
\* for a north-up transform: (row, col) of the pixel holding the point
rowcol2(t, x2, y2) ==
    <<(2 * t.f - y2) \div (2 * (0 - t.e)), (x2 - 2 * t.c) \div (2 * t.a)>>

\* ------------------------------------------------------------------- state
VARIABLES
    arr,      \* heap of numpy arrays:  [shape |-> <<rows, cols>>, data |-> cells]
    prof,     \* heap of Profile objects
    dset,     \* heap of Dataset objects
    call,     \* the last call made: operation, arguments, outcome
    pre,      \* the three heaps as they were when the last call started
    owlog     \* the calc_offset_overwrite invocations of the last call

vars == <<arr, prof, dset, call, pre, owlog>>

\* Dataset.bands is a dict: an insertion-ordered list of (key, array) items
BandKeys(bands) == {bands[i].key : i \in DOMAIN bands}
HasKey(bands, k) == \E i \in DOMAIN bands : bands[i].key = k
BandOf(bands, k) == bands[CHOOSE i \in DOMAIN bands : bands[i].key = k].arr
BandArrs(bands) == {bands[i].arr : i \in DOMAIN bands}

\* Dataset.meta: a dict or None, whose "resolution" entry may be missing
NoMeta == [isdict |-> FALSE, resolution |-> None]
\* Dataset.subdatasets: None, a list of Dataset objects or (after combine) a dict
NoSubdatasets == [kind |-> "None", items |-> <<>>]

\* first / second / reference: positions in dset, 0 for None; flags, window, keys
\* and opt hold the other arguments of the operation
NoCall == [op |-> "none", first |-> 0, second |-> 0, reference |-> 0,
           flags |-> <<>>, window |-> <<>>, keys |-> <<>>, opt |-> None,
           status |-> "", ret |-> 0, seq |-> 0]
Called(op, f, s, r) ==
    [NoCall EXCEPT !.op = op, !.first = f, !.second = s, !.reference = r,
                   !.seq = call.seq + 1]

\* a profile whose "transform" entry holds None (all-zero stands for it)
NoTransform == [a |-> 0, b |-> 0, c |-> 0, d |-> 0, e |-> 0, f |-> 0]

\* ------------------------------------------------ mosaic.py: the offset write
\* numba indexing: a negative index counts from the end of the axis
WrapIndex(i, n) == IF i < 0 THEN i + n ELSE i

\* overwrite_with_offset (mosaic.py 218-237): every input cell is stored at
\* (row_num + row_offset, col_num + col_offset); a cell stored twice keeps the
\* value of the later iteration of the row-major loop
overwrite_with_offset(input_array, row_offset, col_offset, substrate_array) ==
    LET rows == NRows(substrate_array)
        cols == NCols(substrate_array)
        \* the input indices stored at substrate index i of an axis of length n
        From(i, off, n) == {j \in {i - off, i - off - n} : WrapIndex(j + off, n) = i}
        Src(p) == (From(p[1], row_offset, rows) \X From(p[2], col_offset, cols))
                      \cap DOMAIN input_array.data
        Last(S) == CHOOSE q \in S : \A o \in S :
                      o[1] < q[1] \/ (o[1] = q[1] /\ o[2] <= q[2])
    IN  [substrate_array EXCEPT !.data =
            [p \in DOMAIN substrate_array.data |->
                IF Src(p) = {} THEN substrate_array.data[p]
                ELSE input_array.data[Last(Src(p))]]]

\* mosaic.py 202-203: the guard in front of the write, per axis
offset_fits_off_by_one(offset, input_len, substrate_len) ==
    offset + input_len - 1 <= substrate_len
offset_fits(offset, input_len, substrate_len) ==
    offset + input_len - 1 < substrate_len

\* calc_offset_overwrite, lines 201-215: the guard, then the write at offset
write_at(input_array, offset, substrate_array) ==
    IF /\ offset_fits(offset[1], NRows(input_array), NRows(substrate_array))
       /\ offset_fits(offset[2], NCols(input_array), NCols(substrate_array))
    THEN [err |-> "",
          array |-> overwrite_with_offset(input_array, offset[1], offset[2],
                                          substrate_array),
          log |-> <<[row_offset |-> offset[1], col_offset |-> offset[2],
                     input_shape |-> input_array.shape,
                     substrate_shape |-> substrate_array.shape,
                     written |-> TRUE]>>]
    ELSE [err |-> "AlignmentOverflowError", array |-> substrate_array,
          log |-> <<[row_offset |-> offset[1], col_offset |-> offset[2],
                     input_shape |-> input_array.shape,
                     substrate_shape |-> substrate_array.shape,
                     written |-> FALSE]>>]

\* calc_offset_overwrite (mosaic.py 176-215): the offset is the substrate pixel
\* that holds the centre of the input's top-left pixel
calc_offset_overwrite(input_array, input_transform, substrate_array, substrate_transform) ==
    write_at(input_array,
             rowcol2(substrate_transform,
                     xy2(input_transform, 0, 0, "center")[1],
                     xy2(input_transform, 0, 0, "center")[2]),
             substrate_array)

\* the outcome of a write that follows write w1
After(w1, w2) ==
    IF w1.err # "" THEN w1
    ELSE [w2 EXCEPT !.log = w1.log \o w2.log]
\* the substrate a write leaves behind
Written(w) == w.array

\* direct_merge, lines 164-170: first_data is written, then second_data on top
write_second_then_first(first_data, first_transform, second_data, second_transform, new_array, new_transform) ==
    After(calc_offset_overwrite(second_data, second_transform, new_array, new_transform),
          calc_offset_overwrite(first_data, first_transform,
              Written(calc_offset_overwrite(second_data, second_transform,
                                            new_array, new_transform)),
              new_transform))
write_both(first_data, first_transform, second_data, second_transform, new_array, new_transform) ==
    After(calc_offset_overwrite(first_data, first_transform, new_array, new_transform),
          calc_offset_overwrite(second_data, second_transform,
              Written(calc_offset_overwrite(first_data, first_transform,
                                            new_array, new_transform)),
              new_transform))

\* direct_merge, lines 133-141: (west, south, east, north) of the two boxes
new_bounds_of_first(first_bounds, second_bounds) == first_bounds
new_bounds(first_bounds, second_bounds) ==
    <<IF first_bounds[1] <= second_bounds[1] THEN first_bounds[1] ELSE second_bounds[1],
      IF first_bounds[2] <= second_bounds[2] THEN first_bounds[2] ELSE second_bounds[2],
      IF first_bounds[3] >= second_bounds[3] THEN first_bounds[3] ELSE second_bounds[3],
      IF first_bounds[4] >= second_bounds[4] THEN first_bounds[4] ELSE second_bounds[4]>>

\* direct_merge, lines 153-162: the substrate for bounds and transform
substrate(bounds, new_transform, nodata_value) ==
    Filled(rowcol2(new_transform, 2 * bounds[3], 2 * bounds[2])[1],
           rowcol2(new_transform, 2 * bounds[3], 2 * bounds[2])[2],
           nodata_value)

\* a result of direct_merge: err is "" or the error raised
MergeResult(err, array, transform, log) ==
    [err |-> err, array |-> array, log |-> log, transform |-> transform]

\* direct_merge, line 173: the array as written, with the new transform
Returned(w, new_transform) == MergeResult(w.err, w.array, new_transform, w.log)

\* direct_merge, lines 143-173, for the bounds of the output
merge_within(first_data, first_transform, second_data, second_transform, bounds, new_transform, nodata_value) ==
    Returned(write_both(first_data, first_transform, second_data, second_transform,
                        substrate(bounds, new_transform, nodata_value), new_transform),
             new_transform)

\* direct_merge (mosaic.py 104-173)
direct_merge(first_data, first_transform, second_data, second_transform, pixel_resolution, nodata_value) ==
    IF NRows(first_data) = 0 \/ NRows(second_data) = 0
    THEN \* len(first_data[0]) on an array without rows
         MergeResult("IndexError", first_data, first_transform, <<>>)
    ELSE
    LET bounds == new_bounds(
                     array_bounds(NRows(first_data), NCols(first_data), first_transform),
                     array_bounds(NRows(second_data), NCols(second_data), second_transform))
    IN  merge_within(first_data, first_transform, second_data, second_transform,
                     bounds,
                     from_origin(bounds[1], bounds[4],
                                 pixel_resolution[1], pixel_resolution[2]),
                     nodata_value)

\* ------------------------------------------------------- mosaic.py: merge
\* merge, lines 35-39: the assertions on the two inputs
schema_ok_crs_only(first, second) ==
    prof[first.profile].crs = prof[second.profile].crs
schema_ok(first, second) ==
    /\ prof[first.profile].crs = prof[second.profile].crs
    /\ Len(first.bands) = Len(second.bands)
    /\ BandKeys(first.bands) = BandKeys(second.bands)

\* merge, lines 42-43
fix_nodata(nodata) == IF IsNone(nodata) THEN Some(NaN) ELSE nodata

\* merge, lines 56-58: np.where builds a remapped copy of the band that is bound
\* to no name; the array object held by second.bands[band_key] stays as it is
nodata_remap_in_place(second_band_data, second_nodata, first_nodata) ==
    IF PyNotEqual(first_nodata, second_nodata)
    THEN [second_band_data EXCEPT !.data =
            [p \in DOMAIN second_band_data.data |->
                IF PyEqual(second_band_data.data[p], second_nodata)
                THEN first_nodata ELSE second_band_data.data[p]]]
    ELSE second_band_data
nodata_remap(second_band_data, second_nodata, first_nodata) ==
    second_band_data

\* merge, lines 66-86: the composite is merged onto a nodata array shaped like
\* the reference's first band, at the reference's transform
onto_reference(merged, A, ref_profile, ref_band_data, pixel_resolution, nodata) ==
    After(merged,
          direct_merge(Filled(NRows(ref_band_data), NCols(ref_band_data), nodata),
                       ref_profile.transform, merged.array, merged.transform,
                       pixel_resolution, nodata))

\* merge, lines 66-67
with_reference(merged, A, reference, pixel_resolution, nodata) ==
    IF merged.err # "" \/ reference = 0 THEN merged
    ELSE IF Len(dset[reference].bands) = 0
    THEN \* next(iter(...)) on an empty dict
         [merged EXCEPT !.err = "StopIteration"]
    ELSE onto_reference(merged, A, prof[dset[reference].profile],
                        A[dset[reference].bands[1].arr], pixel_resolution, nodata)

\* merge, lines 50-91: one iteration of the band loop, on array heap A
merge_band(A, first, second, reference, band_key) ==
    IF ~HasKey(second.bands, band_key)
    THEN \* second.bands[band_key]
         MergeResult("KeyError", A[BandOf(first.bands, band_key)],
                     prof[first.profile].transform, <<>>)
    ELSE IF IsNone(prof[first.profile].pixel_dimensions)
    THEN \* first.profile.data["pixel_dimensions"]
         MergeResult("KeyError", A[BandOf(first.bands, band_key)],
                     prof[first.profile].transform, <<>>)
    ELSE with_reference(
            direct_merge(A[BandOf(first.bands, band_key)],
                         prof[first.profile].transform,
                         A[BandOf(second.bands, band_key)],
                         prof[second.profile].transform,
                         prof[first.profile].pixel_dimensions,
                         Val(first.nodata)),
            A, reference, prof[first.profile].pixel_dimensions, Val(first.nodata))

\* the log of the bands processed up to and including band n
RECURSIVE LogsUpTo(_, _)
LogsUpTo(res, n) == IF n = 0 THEN <<>> ELSE LogsUpTo(res, n - 1) \o res[n].log

\* the first band whose merge raised, 0 when none did
FirstError(res) ==
    IF \A i \in DOMAIN res : res[i].err = "" THEN 0
    ELSE CHOOSE i \in DOMAIN res :
            res[i].err # "" /\ \A j \in 1 .. i - 1 : res[j].err = ""

\* merge, lines 45-101, once every band is merged: res[i] is the result for the
\* i-th key of first.bands, D and A are the heaps as the band loop leaves them
merge_finish(base, f, D, A, res, stop) ==
    IF stop # 0
    THEN /\ call' = [base EXCEPT !.status = res[stop].err, !.ret = 0]
         /\ owlog' = LogsUpTo(res, stop)
         /\ arr' = A
         /\ dset' = D
         /\ UNCHANGED prof
    ELSE IF Len(res) = 0
    THEN \* line 96: new_bands[last_band_key] with last_band_key = None, after line 95
         /\ call' = [base EXCEPT !.status = "KeyError", !.ret = 0]
         /\ owlog' = <<>>
         /\ arr' = A
         /\ dset' = D
         /\ prof' = [prof EXCEPT ![D[f].profile].transform = NoTransform]
    ELSE \* lines 94-98: new_profile is first.profile, the same object
         /\ arr' = A \o [i \in DOMAIN res |-> res[i].array]
         /\ prof' = [prof EXCEPT ![D[f].profile] =
                       [@ EXCEPT !.transform = res[Len(res)].transform,
                                 !.width = NCols(res[Len(res)].array),
                                 !.height = NRows(res[Len(res)].array),
                                 !.count = Len(res)]]
         /\ dset' = Append(D, [profile |-> D[f].profile,
                               bands |-> [i \in DOMAIN res |->
                                            [key |-> D[f].bands[i].key,
                                             arr |-> Len(arr) + i]],
                               nodata |-> D[f].nodata, meta |-> NoMeta,
                               subdatasets |-> NoSubdatasets])
         /\ call' = [base EXCEPT !.status = "ok", !.ret = Len(dset) + 1]
         /\ owlog' = LogsUpTo(res, Len(res))

\* merge, lines 50-91: the band loop on heaps D and A
merge_bands(base, f, s, r, D, A) ==
    merge_finish(base, f, D, A,
        [i \in DOMAIN D[f].bands |-> merge_band(A, D[f], D[s], r, D[f].bands[i].key)],
        FirstError([i \in DOMAIN D[f].bands |->
                        merge_band(A, D[f], D[s], r, D[f].bands[i].key)]))

\* merge, lines 42-43 and 56-58: the Dataset heap and the array heap the band
\* loop works on
merge_nodata_fixed(f, s) ==
    [[dset EXCEPT ![f].nodata = fix_nodata(@)] EXCEPT ![s].nodata = fix_nodata(@)]
merge_remapped(D, f, s) ==
    [i \in DOMAIN arr |->
        IF i \in BandArrs(D[s].bands)
        THEN nodata_remap(arr[i], Val(D[s].nodata), Val(D[f].nodata))
        ELSE arr[i]]

\* merge (mosaic.py 16-101): f, s are positions in dset, r is a position or 0
\* for None
Merge(f, s, r) ==
    /\ pre' = [arr |-> arr, prof |-> prof, dset |-> dset]
    /\ IF ~schema_ok(dset[f], dset[s])
       THEN /\ call' = [Called("merge", f, s, r) EXCEPT
                           !.status = "SchemaMismatchError", !.ret = 0]
            /\ owlog' = <<>>
            /\ UNCHANGED <<arr, prof, dset>>
       ELSE merge_bands(Called("merge", f, s, r), f, s, r, merge_nodata_fixed(f, s),
                        merge_remapped(merge_nodata_fixed(f, s), f, s))

\* ------------------------------------------------------ dataset.py: combine
Heaps == [arr |-> arr, prof |-> prof, dset |-> dset]

\* the error of reading d.meta["resolution"], "" when it can be read
MetaError(d) ==
    IF ~d.meta.isdict THEN "TypeError"
    ELSE IF IsNone(d.meta.resolution) THEN "KeyError" ELSE ""

\* combine, lines 110-113
compatible_but_for_width(first, second) ==
    /\ first.meta.resolution = second.meta.resolution
    /\ prof[first.profile].crs = prof[second.profile].crs
    /\ prof[first.profile].height = prof[second.profile].height
compatible(first, second) ==
    /\ first.meta.resolution = second.meta.resolution
    /\ prof[first.profile].crs = prof[second.profile].crs
    /\ prof[first.profile].height = prof[second.profile].height
    /\ prof[first.profile].width = prof[second.profile].width

\* combine, lines 101-105: an absent operand
combine_absent_is_none(f, s) == 0
combine_absent(f, s) == IF f = 0 THEN s ELSE f

\* combine, lines 117-118: deepcopy(bands) when copy is set (the copy of the
\* i-th array is the array object at position base + i), bands itself otherwise
copied(bands, base, copy) ==
    [i \in DOMAIN bands |->
        [key |-> bands[i].key, arr |-> IF copy THEN base + i ELSE bands[i].arr]]

\* combine, lines 123-126: a key of first_bands that is in second_bands raises
\* unless skip_duplicates is set
duplicate_raises_never(first_bands, second_bands, skip_duplicates) == FALSE
duplicate_raises(first_bands, second_bands, skip_duplicates) ==
    /\ \E i \in DOMAIN first_bands : HasKey(second_bands, first_bands[i].key)
    /\ ~skip_duplicates

\* combine, lines 123-128 with skip_duplicates: second_bands once every key of
\* first_bands is deleted from it
without_duplicates_keeps_all(first_bands, second_bands) == second_bands
without_duplicates(first_bands, second_bands) ==
    SelectSeq(second_bands, LAMBDA b : ~HasKey(first_bands, b.key))

\* {**a, **b}: the keys of a in their order, each with b's value when b has the
\* key, then the keys that only b has
dict_merge_first_only(a, b) == a
dict_merge(a, b) ==
    [i \in DOMAIN a |->
        [key |-> a[i].key,
         arr |-> IF HasKey(b, a[i].key) THEN BandOf(b, a[i].key) ELSE a[i].arr]]
    \o SelectSeq(b, LAMBDA x : ~HasKey(a, x.key))

\* combine, line 148: the object returned
combine_returns_second(f, s) == s
combine_returns(f, s) == f

\* combine (dataset.py 85-148); f, s are positions in dset or 0 for None.
\* copy = True deep-copies both band dicts: the arrays of the result are new
\* array objects
Combine(f, s, skip_duplicates, copy) ==
    LET base == [Called("combine", f, s, 0) EXCEPT !.flags = <<skip_duplicates, copy>>]
    IN
    /\ pre' = Heaps
    /\ owlog' = <<>>
    /\ IF f = 0 \/ s = 0
       THEN /\ call' = [base EXCEPT !.status = "ok", !.ret = combine_absent(f, s)]
            /\ UNCHANGED <<arr, prof, dset>>
       ELSE
       LET first == dset[f]
           second == dset[s]
           meta_err == IF MetaError(first) # "" THEN MetaError(first)
                       ELSE MetaError(second)
           first_bands == copied(first.bands, Len(arr), copy)
           second_bands == copied(second.bands, Len(arr) + Len(first.bands), copy)
           kept == without_duplicates(first_bands, second_bands)
           copies == [i \in DOMAIN first.bands |-> arr[first.bands[i].arr]]
                        \o [j \in DOMAIN second.bands |-> arr[second.bands[j].arr]]
           \* line 131, and lines 123-128 acting on second.bands itself when copy is False
           D == [dset EXCEPT ![f].bands = dict_merge(first_bands, kept),
                             ![s].bands = IF copy THEN @ ELSE kept]
       IN  IF meta_err # ""
           THEN /\ call' = [base EXCEPT !.status = meta_err]
                /\ UNCHANGED <<arr, prof, dset>>
           ELSE IF ~compatible(first, second)
           THEN /\ call' = [base EXCEPT !.status = "IncompatibleGridError"]
                /\ UNCHANGED <<arr, prof, dset>>
           ELSE IF duplicate_raises(first_bands, second_bands, skip_duplicates)
           THEN /\ call' = [base EXCEPT !.status = "DuplicateBandError"]
                /\ UNCHANGED <<arr, prof, dset>>
           ELSE IF first.subdatasets.kind = "list" \/ second.subdatasets.kind = "list"
           THEN \* line 145: {**a_list} is a TypeError; first.bands is already replaced
                /\ call' = [base EXCEPT !.status = "TypeError"]
                /\ arr' = IF copy THEN arr \o copies ELSE arr
                /\ dset' = D
                /\ UNCHANGED prof
           ELSE /\ call' = [base EXCEPT !.status = "ok", !.ret = combine_returns(f, s)]
                /\ arr' = IF copy THEN arr \o copies ELSE arr
                /\ dset' = [D EXCEPT ![f].subdatasets = [kind |-> "dict", items |-> <<>>]]
                /\ UNCHANGED prof

\* ------------------------------------------------- dataset.py: split_bands
\* the keys of {k: ... for k in band_ids}: band_ids without repetitions
RECURSIVE DictKeys(_)
DictKeys(band_ids) ==
    IF band_ids = <<>> THEN <<>>
    ELSE LET front == DictKeys(SubSeq(band_ids, 1, Len(band_ids) - 1))
             k == band_ids[Len(band_ids)]
         IN  IF \E i \in DOMAIN front : front[i] = k THEN front ELSE Append(front, k)

\* split_bands, line 69: the dict of the bands that are split off
bands_to_split_all(bands, keys) == bands
bands_to_split(bands, keys) ==
    [i \in 1 .. Len(keys) |-> [key |-> keys[i], arr |-> BandOf(bands, keys[i])]]

\* Dataset.split_bands (dataset.py 60-82)
SplitBands(d, band_ids) ==
    LET base == [Called("split_bands", d, 0, 0) EXCEPT !.keys = band_ids]
        self == dset[d]
        \* the first position of band_ids whose key an earlier position has deleted
        twice == {i \in DOMAIN band_ids : \E j \in 1 .. i - 1 : band_ids[j] = band_ids[i]}
        stop == IF twice = {} THEN Len(band_ids) + 1
                ELSE CHOOSE i \in twice : \A j \in twice : i <= j
        deleted == {band_ids[i] : i \in 1 .. stop - 1}
        left == SelectSeq(self.bands, LAMBDA b : b.key \notin deleted)
    IN
    /\ pre' = Heaps
    /\ owlog' = <<>>
    /\ IF \E i \in DOMAIN band_ids : ~HasKey(self.bands, band_ids[i])
       THEN \* line 69: self.bands[band_key]
            /\ call' = [base EXCEPT !.status = "KeyError"]
            /\ UNCHANGED <<arr, prof, dset>>
       ELSE IF twice # {}
       THEN \* line 73: del of a key that is already deleted
            /\ call' = [base EXCEPT !.status = "KeyError"]
            /\ dset' = [dset EXCEPT ![d].bands = left]
            /\ UNCHANGED <<arr, prof>>
       ELSE /\ call' = [base EXCEPT !.status = "ok", !.ret = Len(dset) + 1]
            /\ prof' = Append(prof, prof[self.profile])
            /\ dset' = Append([dset EXCEPT ![d].bands = left],
                              [profile |-> Len(prof) + 1,
                               bands |-> bands_to_split(self.bands, DictKeys(band_ids)),
                               nodata |-> self.nodata, meta |-> self.meta,
                               subdatasets |-> NoSubdatasets])
            /\ UNCHANGED arr

\* ---------------------------------------------------- clip.py: crop_by_pixel
\* a[start:stop] on an axis of length n: the first index taken and the one after
\* the last (negative positions count from the end, all positions are clamped)
SliceBound(i, n) == IF i < 0 THEN Max2(i + n, 0) ELSE Min2(i, n)

\* data_array[row_start:row_end, col_start:col_end]
Slice2(a, row_start, row_end, col_start, col_end) ==
    LET r0 == SliceBound(row_start, NRows(a))
        r1 == SliceBound(row_end, NRows(a))
        c0 == SliceBound(col_start, NCols(a))
        c1 == SliceBound(col_end, NCols(a))
        rows == Max2(r1 - r0, 0)
        cols == Max2(c1 - c0, 0)
    IN  [shape |-> <<rows, cols>>,
         data |-> [p \in Idx(rows, cols) |-> a.data[<<p[1] + r0, p[2] + c0>>]]]

\* crop_by_pixel, lines 53-61: the world coordinate (doubled) of the upper-left
\* corner of pixel (row_start, col_start)
crop_origin_swapped(transform, row_start, col_start) ==
    xy2(transform, col_start, row_start, "ul")
crop_origin(transform, row_start, col_start) ==
    xy2(transform, row_start, col_start, "ul")

\* crop_by_pixel, lines 72-73: the width / height written to the profile
crop_extent_is_end(start, end) == end
crop_extent(start, end) == end - start

\* crop_by_pixel, lines 63-68
crop_transform(origin2, pixel_dimensions) ==
    from_origin(origin2[1] \div 2, origin2[2] \div 2,
                pixel_dimensions[1], pixel_dimensions[2])

\* the outcome of an operation that works on heaps: the error raised ("ok" when
\* none is), the heaps it leaves and the pixel window it cropped to
Outcome(status, H, window) == [status |-> status, heaps |-> H, window |-> window]

\* crop_by_pixel, lines 44-75, on heaps H: every band is replaced by its slice
\* and the profile gets the new width, height and transform
cropped(H, d, row_start, row_end, col_start, col_end) ==
    [arr |-> H.arr \o [i \in DOMAIN H.dset[d].bands |->
                         Slice2(H.arr[H.dset[d].bands[i].arr],
                                row_start, row_end, col_start, col_end)],
     dset |-> [H.dset EXCEPT ![d].bands =
                 [i \in DOMAIN @ |-> [key |-> @[i].key, arr |-> Len(H.arr) + i]]],
     prof |-> [H.prof EXCEPT ![H.dset[d].profile] =
                 [@ EXCEPT !.width = crop_extent(col_start, col_end),
                           !.height = crop_extent(row_start, row_end),
                           !.transform =
                               crop_transform(
                                   crop_origin(H.prof[H.dset[d].profile].transform,
                                               row_start, col_start),
                                   H.prof[H.dset[d].profile].pixel_dimensions)]]]

\* crop_by_pixel, lines 36-78, on heaps H
crop(H, d, row_start, row_end, col_start, col_end) ==
    IF IsNone(H.prof[H.dset[d].profile].pixel_dimensions)
    THEN \* line 41
         Outcome("AssertionError", H, <<>>)
    ELSE Outcome("ok", cropped(H, d, row_start, row_end, col_start, col_end),
                 <<row_start, row_end, col_start, col_end>>)

\* the heaps and the call record once an operation on the grid at d ended with
\* outcome o: the grid itself is returned, the window is recorded when one was cut
Ends(base, d, o) ==
    /\ call' = IF o.status = "ok"
               THEN [base EXCEPT !.status = "ok", !.ret = d, !.window = o.window]
               ELSE IF o.window = <<>> THEN [base EXCEPT !.status = o.status]
               ELSE [base EXCEPT !.status = o.status, !.window = o.window]
    /\ arr' = o.heaps.arr
    /\ prof' = o.heaps.prof
    /\ dset' = o.heaps.dset

\* crop_by_pixel (clip.py 20-78)
CropByPixel(d, row_start, row_end, col_start, col_end, copy) ==
    /\ pre' = Heaps
    /\ owlog' = <<>>
    /\ Ends([Called("crop_by_pixel", d, 0, 0) EXCEPT
                !.window = <<row_start, row_end, col_start, col_end>>,
                !.flags = <<copy>>],
            d, crop(Heaps, d, row_start, row_end, col_start, col_end))

\* --------------------------------------------------- clip.py: crop_by_extent
\* crop_by_extent, lines 102-107 and the min / max of lines 117-120: the box
\* (min_x, min_y, max_x, max_y) around the bounds of every shape
RECURSIVE shapes_extent(_)
shapes_extent(shapes_bounds) ==
    IF Len(shapes_bounds) = 1 THEN shapes_bounds[1]
    ELSE LET rest == shapes_extent(Tail(shapes_bounds))
         IN  <<Min2(shapes_bounds[1][1], rest[1]), Min2(shapes_bounds[1][2], rest[2]),
               Max2(shapes_bounds[1][3], rest[3]), Max2(shapes_bounds[1][4], rest[4])>>

\* crop_by_extent, lines 116-121: (min_x, min_y, max_x, max_y) of the shapes'
\* extent cut to the dataset's bounding box (west, south, east, north)
bounding_box_of_shapes(shapes_extent_box, dataset_bounding_box) ==
    shapes_extent_box
bounding_box(shapes_extent_box, dataset_bounding_box) ==
    <<Max2(shapes_extent_box[1], dataset_bounding_box[1]),
      Max2(shapes_extent_box[2], dataset_bounding_box[2]),
      Min2(shapes_extent_box[3], dataset_bounding_box[3]),
      Min2(shapes_extent_box[4], dataset_bounding_box[4])>>

\* crop_by_extent, lines 126-139: rowcol with math.floor of the two corners
\* (min_x, min_y) and (max_x, max_y), as (min_row, max_row, min_col, max_col)
array_offsets(transform, box) ==
    <<rowcol2(transform, 2 * box[3], 2 * box[4])[1],
      rowcol2(transform, 2 * box[1], 2 * box[2])[1],
      rowcol2(transform, 2 * box[1], 2 * box[2])[2],
      rowcol2(transform, 2 * box[3], 2 * box[4])[2]>>

\* crop_by_pixel on the four offsets, lines 143-150
crop_to_offsets(H, d, offsets) ==
    crop(H, d, offsets[1], offsets[2], offsets[3], offsets[4])

\* crop_by_extent, lines 122-150, for the bounding box
crop_to_box(H, d, box) ==
    IF ~(box[1] < box[3] /\ box[2] < box[4])
    THEN Outcome("EmptyIntersectionError", H, <<>>)
    ELSE crop_to_offsets(H, d, array_offsets(H.prof[H.dset[d].profile].transform, box))

\* crop_by_extent, lines 101-153, on heaps H for the shapes of the shapefile
crop_to_shapes(H, d, shapes) ==
    IF shapes = <<>>
    THEN \* line 117: min() of an empty list
         Outcome("ValueError", H, <<>>)
    ELSE crop_to_box(H, d,
             bounding_box(shapes_extent(shapes),
                          array_bounds(H.prof[H.dset[d].profile].height,
                                       H.prof[H.dset[d].profile].width,
                                       H.prof[H.dset[d].profile].transform)))

\* crop_by_extent, lines 90-93: the CRS is compared when the shapefile is given
\* as a path, and not when it is given as an open fiona Collection
crs_refused(shapefile, crs) == shapefile.is_path /\ crs # shapefile.crs

\* crop_by_extent (clip.py 81-153).  shapefile: is_path (a str, or a Collection),
\* crs, and shapes = the bounds (min_x, min_y, max_x, max_y) of every shape
CropByExtent(d, shapefile, copy) ==
    /\ pre' = Heaps
    /\ owlog' = <<>>
    /\ Ends([Called("crop_by_extent", d, 0, 0) EXCEPT
                !.opt = Some(shapefile), !.flags = <<copy>>],
            d,
            IF crs_refused(shapefile, prof[dset[d].profile].crs)
            THEN Outcome("CRSMismatchError", Heaps, <<>>)
            ELSE crop_to_shapes(Heaps, d, shapefile.shapes))

\* ----------------------------------------------------------- clip.py: clip
\* dict(ChainMap(first_map, second_map)), lines 182-190: a key is looked up in
\* first_map, and in second_map when first_map does not hold it
ChainMap(first_map, second_map) ==
    [k \in DOMAIN first_map \cup DOMAIN second_map |->
        IF k \in DOMAIN first_map THEN first_map[k] ELSE second_map[k]]

\* clip, lines 178-190: the first mapping is the literal, the second the caller's
clip_preferences(user_crop) ==
    ChainMap([all_touched |-> TRUE, invert |-> TRUE, crop |-> TRUE], [crop |-> user_crop])

\* rasterio.features.geometry_mask for rectangles given by their bounds: a pixel
\* is burned when a shape overlaps it (all_touched) or holds its centre; edges
\* says whether GDAL also burns a pixel that a shape meets along its border only.
\* The mask is True on the burned pixels when invert is set, elsewhere otherwise
geometry_mask(geometries, out_shape, transform, all_touched, invert, edges) ==
    LET less(x, y) == IF edges THEN x <= y ELSE x < y
        \* doubled world coordinates: the pixel's sides, or its centre for both
        x_lo(p) == xy2(transform, p[1], p[2], IF all_touched THEN "ul" ELSE "center")[1]
        x_hi(p) == IF all_touched THEN xy2(transform, p[1], p[2] + 1, "ul")[1] ELSE x_lo(p)
        y_hi(p) == xy2(transform, p[1], p[2], IF all_touched THEN "ul" ELSE "center")[2]
        y_lo(p) == IF all_touched THEN xy2(transform, p[1] + 1, p[2], "ul")[2] ELSE y_hi(p)
        burned(p) == \E i \in DOMAIN geometries :
                        /\ less(x_lo(p), 2 * geometries[i][3])
                        /\ less(2 * geometries[i][1], x_hi(p))
                        /\ less(y_lo(p), 2 * geometries[i][4])
                        /\ less(2 * geometries[i][2], y_hi(p))
    IN  [p \in Idx(out_shape[1], out_shape[2]) |->
            IF invert THEN burned(p) ELSE ~burned(p)]

\* band * mask for one cell: the value times 1 or times 0 (nan * 0 is nan)
times_mask(value, keep) ==
    IF keep THEN value ELSE IF value = NaN THEN NaN ELSE 0

\* clip, lines 214-216, on heaps H: every band is replaced by band * mask
masked(H, d, mask) ==
    [H EXCEPT
        !.arr = @ \o [i \in DOMAIN H.dset[d].bands |->
                        [shape |-> H.arr[H.dset[d].bands[i].arr].shape,
                         data |-> [p \in DOMAIN H.arr[H.dset[d].bands[i].arr].data |->
                                     times_mask(H.arr[H.dset[d].bands[i].arr].data[p],
                                                mask[p])]]],
        !.dset[d].bands = [i \in DOMAIN @ |-> [key |-> @[i].key, arr |-> Len(H.arr) + i]]]

\* clip, lines 204-223, after the crop that ended with outcome o
clip_mask(o, d, shapes, preferences, edges) ==
    IF o.status # "ok" THEN o
    ELSE IF \/ shapes = <<>>
            \/ o.heaps.prof[o.heaps.dset[d].profile].height <= 0
            \/ o.heaps.prof[o.heaps.dset[d].profile].width <= 0
    THEN \* geometry_mask without a geometry, or with an empty out_shape
         Outcome("ValueError", o.heaps, o.window)
    ELSE Outcome("ok",
                 masked(o.heaps, d,
                        geometry_mask(shapes,
                                      <<o.heaps.prof[o.heaps.dset[d].profile].height,
                                        o.heaps.prof[o.heaps.dset[d].profile].width>>,
                                      o.heaps.prof[o.heaps.dset[d].profile].transform,
                                      preferences.all_touched, preferences.invert, edges)),
                 o.window)

\* clip, lines 193-223, on heaps H under the preferences
clip_with(H, d, shapefile, preferences, edges) ==
    IF H.prof[H.dset[d].profile].crs # shapefile.crs
    THEN \* line 195
         Outcome("CRSMismatchError", H, <<>>)
    ELSE clip_mask(IF preferences.crop THEN crop_to_shapes(H, d, shapefile.shapes)
                   ELSE Outcome("ok", H, <<>>),
                   d, shapefile.shapes, preferences, edges)

\* clip (clip.py 167-223).  user_crop is the crop argument: <<>> when the caller
\* leaves it out (the parameter's default is False, line 167), else <<value>>
Clip(d, shapefile, user_crop, edges) ==
    /\ pre' = Heaps
    /\ owlog' = <<>>
    /\ Ends([Called("clip", d, 0, 0) EXCEPT !.opt = Some(shapefile), !.flags = user_crop],
            d,
            clip_with(Heaps, d, shapefile,
                      clip_preferences(IF user_crop = <<>> THEN FALSE ELSE user_crop[1]),
                      edges))

\* ------------------------------------------ rasterio_resample.py: resample
\* int(x) of the quotient n / d, d > 0: rounds toward zero
IntOf(n, d) == IF n >= 0 THEN n \div d ELSE 0 - ((0 - n) \div d)

\* rasterio.warp.reproject with Resampling.nearest into a destination array of
\* the given shape: every destination cell takes the source cell that holds its
\* centre, dst_nodata where there is none or where the source holds src_nodata
reproject(band_data, shape, src_transform, dst_transform, src_nodata, dst_nodata) ==
    [shape |-> shape,
     data |-> [p \in Idx(shape[1], shape[2]) |->
                 LET centre == xy2(dst_transform, p[1], p[2], "center")
                     q == rowcol2(src_transform, centre[1], centre[2])
                 IN  IF q \in DOMAIN band_data.data
                     THEN IF band_data.data[q] = src_nodata THEN dst_nodata
                          ELSE band_data.data[q]
                     ELSE dst_nodata]]

\* rasterio_resample, line 70: the shape given to np.empty
resampled_shape(new_width, new_height) == <<new_width, new_height>>

\* rasterio_resample (rasterio_resample.py 16-80).  scaling is the quotient
\* resolution / target_resolution; the action is taken for the targets that
\* leave the pixel size an integer.  empty_ok: whether GDAL accepts a destination
\* array without rows or columns (it returns) or refuses it (reproject raises)
RasterioResample(d, target_resolution, new_nodata, empty_ok) ==
    LET base == [Called("rasterio_resample", d, 0, 0) EXCEPT
                    !.window = <<target_resolution>>, !.opt = new_nodata]
        dataset == dset[d]
        profile == prof[dataset.profile]
        resolution == dataset.meta.resolution
        source_transform == profile.transform
        source_nodata == IF IsNone(profile.nodata) THEN 0 ELSE Val(profile.nodata)
        new_transform == [source_transform EXCEPT
                            !.a = (@ * target_resolution) \div resolution[1],
                            !.e = 0 - (((0 - @) * target_resolution) \div resolution[1])]
        new_height == IntOf(profile.height * resolution[1], target_resolution)
        new_width == IntOf(profile.width * resolution[1], target_resolution)
        dst_nodata == IF IsNone(new_nodata) THEN source_nodata ELSE Val(new_nodata)
        n == Len(dataset.bands)
        P == [prof EXCEPT ![dataset.profile] =
                [@ EXCEPT !.transform = new_transform, !.height = new_height,
                          !.width = new_width, !.nodata = Some(dst_nodata)]]
        D == [dset EXCEPT ![d].meta.resolution = <<target_resolution, target_resolution>>]
        shape == resampled_shape(new_width, new_height)
    IN
    /\ pre' = Heaps
    /\ owlog' = <<>>
    /\ IF MetaError(dataset) # ""
       THEN /\ call' = [base EXCEPT !.status = MetaError(dataset)]
            /\ UNCHANGED <<arr, prof, dset>>
       ELSE IF resolution[1] # resolution[2]
       THEN /\ call' = [base EXCEPT !.status = "NonSquareResolutionError"]
            /\ UNCHANGED <<arr, prof, dset>>
       ELSE
       /\ (source_transform.a * target_resolution) % resolution[1] = 0
       /\ (source_transform.e * target_resolution) % resolution[1] = 0
       /\ IF n > 0 /\ (\/ new_width < 0 \/ new_height < 0
                       \/ (~empty_ok /\ (new_width = 0 \/ new_height = 0)))
          THEN \* np.empty with a negative dimension, or reproject into an empty
               \* array, after lines 54-65
               /\ call' = [base EXCEPT !.status = "ValueError"]
               /\ prof' = P
               /\ dset' = D
               /\ UNCHANGED arr
          ELSE /\ call' = [base EXCEPT !.status = "ok", !.ret = d]
               /\ prof' = P
               /\ arr' = arr \o [i \in 1 .. n |->
                            reproject(arr[dataset.bands[i].arr], shape,
                                      source_transform, new_transform,
                                      source_nodata, dst_nodata)]
               /\ dset' = [D EXCEPT ![d].bands =
                            [i \in 1 .. n |-> [key |-> dataset.bands[i].key,
                                               arr |-> Len(arr) + i]]]

\* ------------------------------------------------------------- loading
\* A loaded grid is described by
\*   rows, cols   the shape of every band
\*   x, y         world coordinate of the top-left corner
\*   px           pixel size (square)
\*   crs, nodata  as in the file
\*   keys         the band keys, in dict order
\*   fill         value of band 1 (band j holds fill + j - 1)
\*   hole         None, or Some(v): cell (0, 0) of every band holds v
\*   pixdim       whether the profile carries "pixel_dimensions" (gtiff.py 49)
\*   res          whether meta carries "resolution" (safe.py 98)
\* Dataset.__init__ (dataset.py 17-32) on what create_dataset reads
\* (gtiff.py 25-52, safe.py 68-109): one Profile, one array per band
Load(h, g) ==
    LET n == Len(g.keys)
        band(j) == [shape |-> <<g.rows, g.cols>>,
                    data |-> [p \in Idx(g.rows, g.cols) |->
                                 IF p = <<0, 0>> /\ ~IsNone(g.hole)
                                 THEN Val(g.hole) ELSE g.fill + j - 1]]
    IN  [arr |-> h.arr \o [j \in 1 .. n |-> band(j)],
         prof |-> Append(h.prof,
                    [crs |-> g.crs,
                     transform |-> from_origin(g.x, g.y, g.px, g.px),
                     width |-> g.cols, height |-> g.rows, count |-> n,
                     nodata |-> g.nodata,
                     pixel_dimensions |-> IF g.pixdim THEN <<g.px, g.px>> ELSE None]),
         dset |-> Append(h.dset,
                    [profile |-> Len(h.prof) + 1,
                     bands |-> [j \in 1 .. n |->
                                  [key |-> g.keys[j], arr |-> Len(h.arr) + j]],
                     nodata |-> g.nodata,
                     meta |-> [isdict |-> TRUE,
                               resolution |-> IF g.res THEN <<g.px, g.px>> ELSE None],
                     subdatasets |-> NoSubdatasets])]

EmptyHeaps == [arr |-> <<>>, prof |-> <<>>, dset |-> <<>>]

RECURSIVE LoadAll(_)
LoadAll(gs) == IF gs = <<>> THEN EmptyHeaps
               ELSE Load(LoadAll(SubSeq(gs, 1, Len(gs) - 1)), gs[Len(gs)])

StartFrom(gs) ==
    LET h == LoadAll(gs)
    IN  /\ arr = h.arr
        /\ prof = h.prof
        /\ dset = h.dset
        /\ call = NoCall
        /\ pre = h
        /\ owlog = <<>>

\* ------------------------------------------------ the mosaic specification
Reverse(q) == [i \in 1 .. Len(q) |-> q[Len(q) + 1 - i]]

\* first: at the origin
MergeFirst ==
    {[rows |-> r, cols |-> c, x |-> 0, y |-> 0, px |-> px, crs |-> "EPSG:32610",
      nodata |-> nd, keys |-> ks, fill |-> 5, hole |-> None,
      pixdim |-> TRUE, res |-> TRUE] :
        r \in {1, MaxDim}, c \in {MaxDim}, px \in {1, 2},
        nd \in {None, Some(0 - 1)}, ks \in {<<"B1">>, <<"B1", "B2">>}}

\* second: the same schema as g1 (keys in another dict order) within MaxOff of
\* first, of first's pixel size or a finer one, with or without a cell holding
\* its own nodata value ...
MergeSecondAligned(g1) ==
    {[rows |-> r, cols |-> c, x |-> x, y |-> y, px |-> px, crs |-> g1.crs,
      nodata |-> nh[1], keys |-> Reverse(g1.keys), fill |-> 9, hole |-> nh[2],
      pixdim |-> TRUE, res |-> TRUE] :
        r \in {1, MaxDim}, c \in 1 .. MaxDim,
        x \in (0 - MaxOff) .. MaxOff, y \in {0 - MaxOff, 0, MaxOff},
        px \in {1, g1.px},
        nh \in {<<None, None>>, <<Some(0 - 1), Some(0 - 1)>>,
                <<Some(0), Some(0)>>, <<Some(0), None>>}}
\* ... or another CRS, other keys, or fewer or more bands
MergeSecondOther(g1) ==
    {[rows |-> g1.rows, cols |-> g1.cols, x |-> 0, y |-> 0, px |-> g1.px, crs |-> crs,
      nodata |-> g1.nodata, keys |-> ks, fill |-> 9, hole |-> None,
      pixdim |-> TRUE, res |-> TRUE] :
        crs \in {"EPSG:32610", "EPSG:4326"},
        ks \in {<<"B1">>, <<"B2">>, <<"B1", "B2">>, <<"B1", "B3">>}}
\* the reference: one pixel at first's origin, or a grid that holds every composite
MergeReference ==
    {[rows |-> r, cols |-> r, x |-> x, y |-> 0 - x, px |-> 1, crs |-> "EPSG:32610",
      nodata |-> None, keys |-> <<"B1">>, fill |-> 7, hole |-> None,
      pixdim |-> TRUE, res |-> TRUE] :
        r \in {1}, x \in {0}}
    \cup
    {[rows |-> r, cols |-> r, x |-> x, y |-> 0 - x, px |-> 1, crs |-> "EPSG:32610",
      nodata |-> None, keys |-> <<"B1">>, fill |-> 7, hole |-> None,
      pixdim |-> TRUE, res |-> TRUE] :
        r \in {2 * (MaxDim + MaxOff)}, x \in {0 - MaxOff}}

\* the mosaic of two 4 x 4 grids, the second 2 pixels right and 2 pixels down
ScenarioA ==
    [rows |-> 4, cols |-> 4, x |-> 0, y |-> 0, px |-> 1, crs |-> "EPSG:32610",
     nodata |-> Some(0 - 1), keys |-> <<"B1">>, fill |-> 5, hole |-> None,
      pixdim |-> TRUE, res |-> TRUE]
ScenarioB ==
    [rows |-> 4, cols |-> 4, x |-> 2, y |-> 0 - 2, px |-> 1, crs |-> "EPSG:32610",
     nodata |-> Some(0 - 1), keys |-> <<"B1">>, fill |-> 9, hole |-> None,
      pixdim |-> TRUE, res |-> TRUE]

InitMerge ==
    \/ StartFrom(<<ScenarioA, ScenarioB>>)
    \/ \E g1 \in MergeFirst :
           \E g2 \in MergeSecondAligned(g1) \cup MergeSecondOther(g1) :
              \E gs \in {<<g1, g2>>} \cup {<<g1, g2, g3>> : g3 \in MergeReference} :
                   StartFrom(gs)

\* merge(first, second) and merge(first, first), with the reference when one is loaded
NextMerge ==
    /\ call.op = "none"
    /\ \E s \in {1, 2} : Merge(1, s, IF Len(dset) = 3 THEN 3 ELSE 0)

SpecMerge == InitMerge /\ [][NextMerge]_vars

\* ------------------------------------------------------ claims on merge
MergeDone == call.op = "merge"
MergeOk == call.op = "merge" /\ call.status = "ok"

\* the inputs as they were when the call started, and the result
In1 == pre.dset[call.first]
In2 == pre.dset[call.second]
InT1 == pre.prof[In1.profile].transform
InT2 == pre.prof[In2.profile].transform
Out == dset[call.ret]
OutT == prof[Out.profile].transform

\* first and second share CRS, band keys and pixel size, and their origins
\* differ by whole pixels
SameGrid ==
    /\ pre.prof[In1.profile].crs = pre.prof[In2.profile].crs
    /\ BandKeys(In1.bands) = BandKeys(In2.bands)
    /\ InT1.a = InT2.a /\ InT1.e = InT2.e
    /\ (InT2.c - InT1.c) % InT1.a = 0
    /\ (InT2.f - InT1.f) % InT1.a = 0

\* the cell of array a (top-left corner at t.c, t.f; square pixels of size px)
\* whose pixel has its top-left corner at world (wx, wy); <<>> when there is none
CellAt(a, t, px, wx, wy) ==
    LET col == (wx - t.c) \div px
        row == (t.f - wy) \div px
    IN  IF <<row, col>> \in DOMAIN a.data THEN <<a.data[<<row, col>>]>> ELSE <<>>

\* what last-writer-wins compositing puts at world (wx, wy)
Composite(a1, a2, px, nodata, wx, wy) ==
    LET c2 == CellAt(a2, InT2, px, wx, wy)
        c1 == CellAt(a1, InT1, px, wx, wy)
    IN  IF c2 # <<>> THEN c2[1] ELSE IF c1 # <<>> THEN c1[1] ELSE nodata

\* C1: merge(first, second) without a reference, on grids of one CRS, one set of
\* band keys and one pixel size whose origins differ by whole pixels: the output
\* covers exactly the union box, and every cell of every band holds second's
\* value where second covers it, else first's where first covers it, else the
\* nodata value
C1_LastWriterWins ==
    (MergeOk /\ call.reference = 0 /\ SameGrid) =>
        LET px == InT1.a
            west == Min2(InT1.c, InT2.c)
            north == Max2(InT1.f, InT2.f)
            nodata == Val(fix_nodata(In1.nodata))
        IN  \A k \in BandKeys(In1.bands) :
               LET a1 == pre.arr[BandOf(In1.bands, k)]
                   a2 == pre.arr[BandOf(In2.bands, k)]
                   o == arr[BandOf(Out.bands, k)]
                   east == Max2(InT1.c + px * NCols(a1), InT2.c + px * NCols(a2))
                   south == Min2(InT1.f - px * NRows(a1), InT2.f - px * NRows(a2))
               IN  /\ OutT.c = west /\ OutT.f = north
                   /\ o.shape = <<(north - south) \div px, (east - west) \div px>>
                   /\ \A p \in DOMAIN o.data :
                        o.data[p] = Composite(a1, a2, px, nodata,
                                              west + px * p[2], north - px * p[1])

\* the 4 x 4 scenario: a 6 x 6 band, 9 in the overlap quadrant and in the rest of
\* second's footprint, 5 in the rest of first's, -1 elsewhere
C1_Scenario ==
    /\ MergeOk /\ call.first = 1 /\ call.second = 2
    /\ pre.arr[1].shape = <<4, 4>> /\ InT2.c = 2 /\ InT2.f = 0 - 2
    /\ LET o == arr[Out.bands[1].arr]
       IN  /\ o.shape = <<6, 6>>
           /\ \A p \in DOMAIN o.data :
                o.data[p] = IF p[1] \in 2 .. 5 /\ p[2] \in 2 .. 5 THEN 9
                            ELSE IF p[1] \in 0 .. 3 /\ p[2] \in 0 .. 3 THEN 5
                            ELSE 0 - 1

\* the output cell that holds the pixel of cell q of second
OutCellOf(q) ==
    <<q[1] + (OutT.f - InT2.f) \div InT1.a, q[2] + (InT2.c - OutT.c) \div InT1.a>>

\* C2: when first.nodata differs from second.nodata, no output cell written from
\* second carries second's nodata value, and every cell of second that held it
\* carries first's nodata value in the output
C2_SecondNodataRemapped ==
    (/\ MergeOk /\ call.reference = 0 /\ SameGrid
     /\ PyNotEqual(Val(fix_nodata(In1.nodata)), Val(fix_nodata(In2.nodata)))) =>
        \A k \in BandKeys(In2.bands) :
           LET a2 == pre.arr[BandOf(In2.bands, k)]
               o == arr[BandOf(Out.bands, k)]
               nodata1 == Val(fix_nodata(In1.nodata))
               nodata2 == Val(fix_nodata(In2.nodata))
           IN  \A q \in DOMAIN a2.data :
                  /\ PyNotEqual(o.data[OutCellOf(q)], nodata2)
                  /\ PyEqual(a2.data[q], nodata2) => o.data[OutCellOf(q)] = nodata1

\* first, second and the reference share pixel size and are aligned on whole pixels
RefSameGrid ==
    LET t == pre.prof[pre.dset[call.reference].profile].transform
    IN  /\ SameGrid
        /\ t.a = InT1.a /\ t.e = InT1.e
        /\ (t.c - InT1.c) % InT1.a = 0
        /\ (t.f - InT1.f) % InT1.a = 0

\* C3: with a reference, the returned grid has the reference's transform and the
\* width and height of the reference's first band (stated for grids that share
\* pixel size and alignment with the reference)
C3_ReferenceFootprint ==
    (MergeOk /\ call.reference # 0 /\ RefSameGrid) =>
        LET R == pre.dset[call.reference]
            ref_band == pre.arr[R.bands[1].arr]
        IN  /\ OutT = pre.prof[R.profile].transform
            /\ prof[Out.profile].width = NCols(ref_band)
            /\ prof[Out.profile].height = NRows(ref_band)
            /\ \A i \in BandArrs(Out.bands) : arr[i].shape = ref_band.shape

\* the Dataset objects passed to the call
MergeInputs ==
    {call.first, call.second} \cup (IF call.reference = 0 THEN {} ELSE {call.reference})

\* C5: merge leaves every band array of first, second and reference as it was
\* (the same array objects, with the same shape and cells), and no band of the
\* returned grid is one of those array objects
C5_InputArraysUntouched ==
    MergeDone =>
        /\ \A d \in MergeInputs :
              /\ dset[d].bands = pre.dset[d].bands
              /\ \A i \in BandArrs(pre.dset[d].bands) : arr[i] = pre.arr[i]
        /\ MergeOk =>
              \A d \in MergeInputs :
                 BandArrs(Out.bands) \cap BandArrs(pre.dset[d].bands) = {}

\* a merge with a reference that returned, where the nodata values differ and a
\* cell of second holds second's nodata value
C5_Witness ==
    /\ MergeOk /\ call.reference # 0 /\ call.first # call.second
    /\ ~IsNone(In2.nodata)
    /\ PyNotEqual(Val(fix_nodata(In1.nodata)), Val(In2.nodata))
    /\ \E i \in BandArrs(In2.bands) :
          \E q \in DOMAIN pre.arr[i].data : pre.arr[i].data[q] = Val(In2.nodata)

\* C6: after a successful merge(first, second), first's profile (transform,
\* width, height, count) and both nodata fields are as before the call, and the
\* returned grid's Profile is another object than first's
C6_MergeReturnsNewGrid ==
    (MergeOk /\ call.reference = 0) =>
        LET before == pre.prof[In1.profile]
            after == prof[In1.profile]
        IN  /\ after.transform = before.transform
            /\ after.width = before.width
            /\ after.height = before.height
            /\ after.count = before.count
            /\ dset[call.first].nodata = In1.nodata
            /\ dset[call.second].nodata = In2.nodata
            /\ Out.profile # In1.profile

\* C7: unless first and second have equal CRS and the same set of band keys,
\* merge fails with the schema-mismatch error before any band is computed: no
\* offset write was attempted and the three heaps are as before the call
C7_SchemaMismatchFailsFirst ==
    (/\ MergeDone
     /\ ~(/\ pre.prof[In1.profile].crs = pre.prof[In2.profile].crs
          /\ BandKeys(In1.bands) = BandKeys(In2.bands))) =>
        /\ call.status = "SchemaMismatchError"
        /\ call.ret = 0
        /\ owlog = <<>>
        /\ arr = pre.arr /\ prof = pre.prof /\ dset = pre.dset

\* a merge of two grids of one CRS and as many bands, with other keys, that failed
C7_Witness ==
    /\ MergeDone /\ call.status = "SchemaMismatchError"
    /\ pre.prof[In1.profile].crs = pre.prof[In2.profile].crs
    /\ Len(In1.bands) = Len(In2.bands)
    /\ BandKeys(In1.bands) # BandKeys(In2.bands)

\* C8: calc_offset_overwrite fails with the alignment-overflow error whenever
\* offset + source length exceeds the substrate's length on either axis, and
\* every write of overwrite_with_offset lands on a cell of the substrate:
\* 0 <= new_row < substrate rows and 0 <= new_col < substrate cols
C8_WritesInsideSubstrate ==
    \A i \in DOMAIN owlog :
       LET e == owlog[i]
           over == \/ e.row_offset + e.input_shape[1] > e.substrate_shape[1]
                   \/ e.col_offset + e.input_shape[2] > e.substrate_shape[2]
       IN  /\ over => (~e.written /\ call.status = "AlignmentOverflowError")
           /\ e.written =>
                 \A q \in Idx(e.input_shape[1], e.input_shape[2]) :
                    /\ 0 <= q[1] + e.row_offset
                    /\ q[1] + e.row_offset < e.substrate_shape[1]
                    /\ 0 <= q[2] + e.col_offset
                    /\ q[2] + e.col_offset < e.substrate_shape[2]

\* a merge where first was written into the substrate and second was refused
C8_Witness ==
    /\ MergeDone /\ call.status = "AlignmentOverflowError"
    /\ \E i, j \in DOMAIN owlog : owlog[i].written /\ ~owlog[j].written

\* the world box (west, south, east, north) of array a under transform t, and
\* the smallest box around two boxes
Box(a, t) == <<t.c, t.f + t.e * NRows(a), t.c + t.a * NCols(a), t.f>>
Around(b1, b2) ==
    <<Min2(b1[1], b2[1]), Min2(b1[2], b2[2]), Max2(b1[3], b2[3]), Max2(b1[4], b2[4])>>
\* the box around band k of first and of second, and around the reference's
\* first band too when there is a reference
UnionBox(k) ==
    Around(Box(pre.arr[BandOf(In1.bands, k)], InT1),
           Box(pre.arr[BandOf(In2.bands, k)], InT2))
UnionBoxWithReference(k) ==
    IF call.reference = 0 THEN UnionBox(k)
    ELSE Around(UnionBox(k),
                Box(pre.arr[pre.dset[call.reference].bands[1].arr],
                    pre.prof[pre.dset[call.reference].profile].transform))
PixelSize == pre.prof[In1.profile].pixel_dimensions

GridOne ==
    {[rows |-> r, cols |-> MaxDim, x |-> 0, y |-> 0, px |-> px, crs |-> "EPSG:32610",
      nodata |-> nd, keys |-> <<"B1", "B2">>, fill |-> 5, hole |-> None,
      pixdim |-> TRUE, res |-> res] :
        r \in 1 .. MaxDim, px \in {1, 2}, nd \in {None, Some(0 - 1)},
        res \in BOOLEAN}
GridTwo ==
    {[rows |-> MaxDim, cols |-> c, x |-> x, y |-> 0 - x, px |-> 1, crs |-> crs,
      nodata |-> Some(0), keys |-> ks, fill |-> 9, hole |-> Some(0),
      pixdim |-> TRUE, res |-> TRUE] :
        c \in 1 .. MaxDim, x \in {0, MaxOff}, crs \in {"EPSG:32610", "EPSG:4326"},
        ks \in {<<"B2", "B1">>, <<"B3">>}}

Init ==
    \E g1 \in GridOne, g2 \in GridTwo, nested \in BOOLEAN :
        LET h == LoadAll(<<g1, g2>>)
            D == IF nested
                 THEN [h.dset EXCEPT ![1].subdatasets = [kind |-> "list", items |-> <<2>>]]
                 ELSE h.dset
        IN  /\ arr = h.arr
            /\ prof = h.prof
            /\ dset = D
            /\ call = NoCall
            /\ pre = [h EXCEPT !.dset = D]
            /\ owlog = <<>>

BandIdLists ==
    {<<>>, <<"B1">>, <<"B2", "B1">>, <<"B1", "B1">>, <<"B1", "B4">>}

\* one call of each operation on the loaded grids
MergeCall ==
    /\ call.op = "none"
    /\ \E f \in {1, 2}, s \in {1, 2} : Merge(f, s, 0)
CombineCall ==
    /\ call.op = "none"
    /\ \E f \in {0, 1, 2}, s \in {0, 1, 2}, skip_duplicates \in BOOLEAN, copy \in BOOLEAN :
          (f = 0 \/ f # s) /\ Combine(f, s, skip_duplicates, copy)
SplitBandsCall ==
    /\ call.op = "none"
    /\ \E d \in {1, 2}, band_ids \in BandIdLists : SplitBands(d, band_ids)
CropByPixelCall ==
    /\ call.op = "none"
    /\ \E d \in {1, 2}, row_start \in {0 - 1, 0, 1}, row_end \in {1, MaxDim, MaxDim + 1},
          col_start \in {0, 1}, col_end \in {MaxDim, MaxDim + 1}, copy \in BOOLEAN :
          CropByPixel(d, row_start, row_end, col_start, col_end, copy)
\* shapefiles: given as a path or as an open Collection, in the first grid's CRS
\* or another one; with one shape of 1 x 1 or MaxDim x MaxDim at the origin, one
\* around every grid, one away from every grid, two shapes that lie apart, or
\* no shape at all
Shapefiles ==
    {[is_path |-> is_path, crs |-> crs, shapes |-> shapes] :
        is_path \in BOOLEAN, crs \in {"EPSG:32610", "EPSG:4326"},
        shapes \in {<<<<0, 0 - 1, 1, 0>>>>, <<<<0, 0 - MaxDim, MaxDim, 0>>>>,
                    <<<<0 - 1, 0 - 2 * MaxDim - 1, 2 * MaxDim + 1, 1>>>>,
                    <<<<2 * MaxDim + 2, 1, 2 * MaxDim + 3, 2>>>>,
                    <<<<1, 0 - 1, 2, 0>>, <<0, 0 - 2, 1, 0 - 1>>>>,
                    <<>>}}
CropByExtentCall ==
    /\ call.op = "none"
    /\ \E d \in {1, 2}, shapefile \in Shapefiles, copy \in BOOLEAN :
          CropByExtent(d, shapefile, copy)
RasterioResampleCall ==
    /\ call.op = "none"
    /\ \E d \in {1, 2}, target_resolution \in {1, 2, 3}, new_nodata \in {None, Some(0 - 9)},
          empty_ok \in BOOLEAN :
          RasterioResample(d, target_resolution, new_nodata, empty_ok)

Next ==
    \/ MergeCall
    \/ CombineCall
    \/ SplitBandsCall
    \/ CropByPixelCall
    \/ CropByExtentCall
    \/ RasterioResampleCall

Spec == Init /\ [][Next]_vars

\* ------------------------------------------- claims on every operation
Failed == call.op # "none" /\ call.status # "ok"
Inputs == {d \in {call.first, call.second, call.reference} : d # 0}

\* C4: every band array of every grid the caller can reach, inputs and results,
\* has the shape (profile.height, profile.width)
C4_BandShapeIsProfileShape ==
    \A d \in DOMAIN dset :
       \A i \in BandArrs(dset[d].bands) :
          arr[i].shape = <<prof[dset[d].profile].height, prof[dset[d].profile].width>>

\* what the caller sees of the grid at position d of heaps H: its bands (keys in
\* order, shape and cells of every array), its profile and its nodata value
GridView(H, d) ==
    [bands |-> [i \in DOMAIN H.dset[d].bands |->
                  [key |-> H.dset[d].bands[i].key,
                   array |-> H.arr[H.dset[d].bands[i].arr]]],
     profile |-> H.prof[H.dset[d].profile],
     nodata |-> H.dset[d].nodata]

\* C9: when an operation raises, the bands, the profile and the nodata value of
\* every input grid are as they were before the call
C9_ErrorLeavesInputsAsTheyWere ==
    Failed => \A d \in Inputs : GridView(Heaps, d) = GridView(pre, d)

\* C10: combine with an absent operand returns the other operand, for every
\* skip_duplicates and copy, without the compatibility check (it does not raise
\* where the check would), and leaves every object as it was
C10_CombineAbsentIsIdentity ==
    (call.op = "combine" /\ (call.first = 0 \/ call.second = 0)) =>
        /\ call.status = "ok"
        /\ call.ret = (IF call.first = 0 THEN call.second ELSE call.first)
        /\ Heaps = pre

\* combine(A, None) and combine(None, A) where reading A.meta["resolution"]
\* would raise, with copy off and skip_duplicates on
C10_Witness ==
    /\ call.op = "combine" /\ call.status = "ok"
    /\ call.flags = <<TRUE, FALSE>>
    /\ \/ call.first # 0 /\ call.second = 0 /\ call.ret = call.first
       \/ call.first = 0 /\ call.second # 0 /\ call.ret = call.second
    /\ MetaError(dset[call.ret]) # ""
    /\ dset[call.ret].subdatasets.kind = "list"

\* ------------------------------------------- the specification of combine
\* first: a square grid with bands B1, B2, with or without meta["resolution"]
CombineFirst ==
    {[rows |-> MaxDim, cols |-> MaxDim, x |-> 0, y |-> 0, px |-> px,
      crs |-> "EPSG:32610", nodata |-> None, keys |-> <<"B1", "B2">>, fill |-> 5,
      hole |-> None, pixdim |-> TRUE, res |-> res] :
        px \in {1, 2}, res \in BOOLEAN}
\* second: any shape, pixel size and CRS; the same keys, other keys, some of both
\* or no band at all
CombineSecond ==
    {[rows |-> r, cols |-> c, x |-> 0, y |-> 0, px |-> px, crs |-> crs,
      nodata |-> None, keys |-> ks, fill |-> 9, hole |-> None,
      pixdim |-> TRUE, res |-> TRUE] :
        r \in 1 .. MaxDim, c \in 1 .. MaxDim, px \in {1, 2},
        crs \in {"EPSG:32610", "EPSG:4326"},
        ks \in {<<"B2", "B1">>, <<"B3">>, <<"B3", "B2">>, <<>>}}

\* Dataset(profile, bands, ...) (dataset.py 17-32) takes any arrays as bands:
\* heaps h where every band of the grid at d has one row more than its profile says
Taller(h, d) ==
    [h EXCEPT !.arr =
        [i \in DOMAIN h.arr |->
            IF i \in BandArrs(h.dset[d].bands)
            THEN Filled(NRows(h.arr[i]) + 1, NCols(h.arr[i]), h.arr[i].data[<<0, 0>>])
            ELSE h.arr[i]]]

\* parent_dataset.subdatasets = datasets (safe.py 55): the grid at d holds the
\* list with the grid at child; d = 0 leaves every subdatasets field None
Nested(h, d, child) ==
    IF d = 0 THEN h
    ELSE [h EXCEPT !.dset[d].subdatasets = [kind |-> "list", items |-> <<child>>]]

StartWith(h) ==
    /\ arr = h.arr
    /\ prof = h.prof
    /\ dset = h.dset
    /\ call = NoCall
    /\ pre = h
    /\ owlog = <<>>

InitCombine ==
    \E g1 \in CombineFirst, g2 \in CombineSecond, parent \in {0, 1, 2}, taller \in BOOLEAN :
        StartWith(Nested(IF taller THEN Taller(LoadAll(<<g1, g2>>), 2)
                                   ELSE LoadAll(<<g1, g2>>),
                         parent, 3 - parent))

SpecCombine == InitCombine /\ [][CombineCall]_vars

\* ------------------------------------------------------ claims on combine
\* a combine of two present grids; A and B are first and second as they were
\* when the call started
CombineBoth == call.op = "combine" /\ call.first # 0 /\ call.second # 0
A == pre.dset[call.first]
B == pre.dset[call.second]
\* both grids carry metadata with a resolution tuple
Readable == MetaError(A) = "" /\ MetaError(B) = ""
\* resolution, CRS, width and height of A and B
Matching ==
    /\ A.meta.resolution = B.meta.resolution
    /\ pre.prof[A.profile].crs = pre.prof[B.profile].crs
    /\ pre.prof[A.profile].width = pre.prof[B.profile].width
    /\ pre.prof[A.profile].height = pre.prof[B.profile].height
SharedKeys == BandKeys(A.bands) \cap BandKeys(B.bands)
NoLists == A.subdatasets.kind # "list" /\ B.subdatasets.kind # "list"
\* the band shapes of A and of B
ShapesOf(d) == {pre.arr[i].shape : i \in BandArrs(d.bands)}

\* bands maps exactly the keys of A and of B, every key of A to the cells of A's
\* band and every key that only B has to the cells of B's band
UnionFirstWins(bands) ==
    /\ BandKeys(bands) = BandKeys(A.bands) \cup BandKeys(B.bands)
    /\ Len(bands) = Cardinality(BandKeys(A.bands) \cup BandKeys(B.bands))
    /\ \A k \in BandKeys(A.bands) :
          arr[BandOf(bands, k)] = pre.arr[BandOf(A.bands, k)]
    /\ \A k \in BandKeys(B.bands) \ BandKeys(A.bands) :
          arr[BandOf(bands, k)] = pre.arr[BandOf(B.bands, k)]

\* C11: combine of two present grids (whose metadata hold a resolution) raises
\* the incompatible-grid error exactly when resolution, CRS, width or height
\* differ, whatever the shapes of the band arrays are, and then changes nothing
C11_IncompatibleGridsRejected ==
    (CombineBoth /\ Readable) =>
        /\ (call.status = "IncompatibleGridError") <=> ~Matching
        /\ ~Matching => Heaps = pre

\* a combine refused for the width alone
C11_Witness ==
    /\ CombineBoth /\ Readable /\ call.status = "IncompatibleGridError"
    /\ A.meta.resolution = B.meta.resolution
    /\ pre.prof[A.profile].crs = pre.prof[B.profile].crs
    /\ pre.prof[A.profile].height = pre.prof[B.profile].height
    /\ pre.prof[A.profile].width # pre.prof[B.profile].width

\* C12: combine of two compatible grids that share a band key, with
\* skip_duplicates false, raises the duplicate-band error and leaves every band
\* of A (and every other object) as it was
C12_DuplicateKeyRejected ==
    (/\ CombineBoth /\ Readable /\ Matching
     /\ SharedKeys # {} /\ call.flags[1] = FALSE) =>
        /\ call.status = "DuplicateBandError"
        /\ Heaps = pre

\* a refused combine where B shares one key with A and brings another one
C12_Witness ==
    /\ CombineBoth /\ call.status = "DuplicateBandError"
    /\ call.flags = <<FALSE, FALSE>>
    /\ SharedKeys # {}
    /\ BandKeys(B.bands) \ BandKeys(A.bands) # {}

\* C13: combine(A, B, skip_duplicates = True) of compatible grids leaves in A
\* (the grid it returns) a band mapping over keys(A) union keys(B) where every
\* key of A holds A's data and every key only B has holds B's data
C13_SkipDuplicatesKeepsFirst ==
    (CombineBoth /\ Readable /\ Matching /\ call.flags[1] = TRUE) =>
        /\ call.status \in {"ok", "TypeError"}
        /\ NoLists => (call.status = "ok" /\ call.ret = call.first)
        /\ UnionFirstWins(dset[call.first].bands)

\* a combine with skip_duplicates where B's band under a shared key differs
\* from A's and B brings a key of its own
C13_Witness ==
    /\ CombineBoth /\ call.status = "ok" /\ call.flags[1] = TRUE
    /\ BandKeys(B.bands) \ BandKeys(A.bands) # {}
    /\ \E k \in SharedKeys :
          pre.arr[BandOf(A.bands, k)] # pre.arr[BandOf(B.bands, k)]

\* C14: combine(A, B) of compatible grids with disjoint band keys returns a
\* grid whose bands are the union of A's and B's, each key with the data of its
\* source, and whose profile is A's profile
C14_DisjointKeysUnion ==
    (CombineBoth /\ Readable /\ Matching /\ SharedKeys = {} /\ NoLists) =>
        /\ call.status = "ok"
        /\ call.ret # 0
        /\ UnionFirstWins(dset[call.ret].bands)
        /\ dset[call.ret].profile = A.profile
        /\ prof[A.profile] = pre.prof[A.profile]

\* a combine of grids with disjoint, non-empty band mappings, with the defaults
\* (skip_duplicates False, copy True)
C14_Witness ==
    /\ CombineBoth /\ call.status = "ok" /\ call.flags = <<FALSE, TRUE>>
    /\ SharedKeys = {}
    /\ BandKeys(A.bands) # {} /\ BandKeys(B.bands) # {}

\* C15: the sub-grid list of the result of combine is A's sub-grids followed by
\* B's, whether the band keys collide or not, also when A or B carries a
\* non-empty list
C15_SubGridsConcatenated ==
    (/\ CombineBoth /\ Readable /\ Matching
     /\ (SharedKeys = {} \/ call.flags[1] = TRUE)) =>
        /\ call.status = "ok"
        /\ call.ret # 0
        /\ dset[call.ret].subdatasets.items = A.subdatasets.items \o B.subdatasets.items

C29_CombineLeavesSecond ==
    CombineBoth =>
        /\ dset[call.second].bands = B.bands
        /\ \A i \in BandArrs(B.bands) : arr[i] = pre.arr[i]

\* ------------------------------------------- claims on split_bands (Spec)
\* a split_bands call whose band_ids are distinct keys of the receiver
SplitOfPresentKeys ==
    /\ call.op = "split_bands"
    /\ \A i \in DOMAIN call.keys : HasKey(pre.dset[call.first].bands, call.keys[i])
    /\ \A i, j \in DOMAIN call.keys : i # j => call.keys[i] # call.keys[j]

ValidWindow(height, width, w) ==
    /\ 0 <= w[1] /\ w[1] < w[2] /\ w[2] <= height
    /\ 0 <= w[3] /\ w[3] < w[4] /\ w[4] <= width

\* the profile of the grid a crop was called on, as it was before the call
CropProfile == pre.prof[pre.dset[call.first].profile]

\* C17: crop_by_pixel raises the out-of-bounds error, and crops nothing, unless
\* 0 <= row_start < row_end <= height and 0 <= col_start < col_end <= width
C17_InvalidWindowRejected ==
    (/\ call.op = "crop_by_pixel"
     /\ ~ValidWindow(CropProfile.height, CropProfile.width, call.window)) =>
        /\ call.status = "OutOfBoundsError"
        /\ Heaps = pre

\* C20: crop_by_extent raises the CRS-mismatch error, and leaves the grid as it
\* was, whenever the CRS of the geometries differs from the grid's, for a
\* shapefile given as a path and for one given as an open collection
C20_CrsMismatchRejected ==
    (call.op = "crop_by_extent" /\ Val(call.opt).crs # CropProfile.crs) =>
        /\ call.status = "CRSMismatchError"
        /\ Heaps = pre

\* a crop_by_extent call that got past the CRS comparison with some shape
ExtentCall ==
    /\ call.op = "crop_by_extent" /\ call.status # "CRSMismatchError"
    /\ Val(call.opt).shapes # <<>>
\* the shapes given to the call, and the grid's world bounds before it
ShapesGiven == Val(call.opt).shapes
West == CropProfile.transform.c
North == CropProfile.transform.f
East == CropProfile.transform.c + CropProfile.transform.a * CropProfile.width
South == CropProfile.transform.f + CropProfile.transform.e * CropProfile.height
\* the smallest and the largest of a set of numbers
SetMin(S) == CHOOSE x \in S : \A y \in S : x <= y
SetMax(S) == CHOOSE x \in S : \A y \in S : x >= y
\* the intersection of the shapes' union box with the grid's bounds
MinX == Max2(SetMin({ShapesGiven[i][1] : i \in DOMAIN ShapesGiven}), West)
MinY == Max2(SetMin({ShapesGiven[i][2] : i \in DOMAIN ShapesGiven}), South)
MaxX == Min2(SetMax({ShapesGiven[i][3] : i \in DOMAIN ShapesGiven}), East)
MaxY == Min2(SetMax({ShapesGiven[i][4] : i \in DOMAIN ShapesGiven}), North)

\* C21: crop_by_extent raises the empty-intersection error exactly when the
\* intersection of the shapes' union bounding box with the grid's world bounds
\* (max of mins, min of maxes) has min >= max on an axis, and then nothing is
\* cropped: every object is as it was
C21_EmptyIntersectionRejected ==
    ExtentCall =>
        /\ (call.status = "EmptyIntersectionError") <=> (MinX >= MaxX \/ MinY >= MaxY)
        /\ (MinX >= MaxX \/ MinY >= MaxY) => Heaps = pre

\* a call refused for a shape that touches the grid at a corner and no more:
\* min = max on both axes
C21_Witness ==
    /\ ExtentCall /\ call.status = "EmptyIntersectionError"
    /\ MinX = MaxX /\ MinY = MaxY
    /\ Heaps = pre

\* C28: whenever crop_by_extent gets past its empty-intersection check, the
\* window it hands to crop_by_pixel has 0 <= row_start < row_end <= height and
\* 0 <= col_start < col_end <= width: the cropped grid keeps a row and a column
C28_ExtentWindowValid ==
    (call.op = "crop_by_extent" /\ call.status = "ok") =>
        /\ ValidWindow(CropProfile.height, CropProfile.width, call.window)
        /\ prof[dset[call.first].profile].height >= 1
        /\ prof[dset[call.first].profile].width >= 1

\* ------------------------------------------------- claims on the resampler
\* a rasterio_resample call that returned, the resolution before it and the target
Resampled == call.op = "rasterio_resample" /\ call.status = "ok"
ResolutionBefore == pre.dset[call.first].meta.resolution[1]
Target == call.window[1]
\* n is an integer nearest to num / den (den > 0)
Nearest(n, num, den) == 2 * n * den - 2 * num <= den /\ 2 * num - 2 * n * den <= den

\* C24: resample sets width = round(old width * scale) and height = round(old
\* height * scale) with scale = resolution / target, divides the two diagonal
\* terms of the transform by scale and leaves its other four terms as they were
C24_ResampleRoundsSize ==
    Resampled =>
        LET new == prof[dset[call.first].profile]
        IN  /\ Nearest(new.width, CropProfile.width * ResolutionBefore, Target)
            /\ Nearest(new.height, CropProfile.height * ResolutionBefore, Target)
            /\ new.transform.a * ResolutionBefore = CropProfile.transform.a * Target
            /\ new.transform.e * ResolutionBefore = CropProfile.transform.e * Target
            /\ new.transform.b = CropProfile.transform.b
            /\ new.transform.c = CropProfile.transform.c
            /\ new.transform.d = CropProfile.transform.d
            /\ new.transform.f = CropProfile.transform.f

\* C26: resample without a replacement leaves the grid's nodata field and the
\* profile's nodata entry as they were, an absent nodata included; with a
\* replacement both hold the replacement
C26_ResampleKeepsNodata ==
    Resampled =>
        IF IsNone(call.opt)
        THEN /\ dset[call.first].nodata = pre.dset[call.first].nodata
             /\ prof[dset[call.first].profile].nodata = CropProfile.nodata
        ELSE /\ dset[call.first].nodata = call.opt
             /\ prof[dset[call.first].profile].nodata = call.opt

\* --------------------------------- the specification of successive crops
CropDim == 4      \* rows and cols of the grid that is cropped
MaxCrops == 2     \* crops made one after the other

\* one grid at the origin with two bands
CropGrid ==
    {[rows |-> CropDim, cols |-> CropDim, x |-> 0, y |-> 0, px |-> px,
      crs |-> "EPSG:32610", nodata |-> None, keys |-> <<"B1", "B2">>, fill |-> 0,
      hole |-> None, pixdim |-> TRUE, res |-> TRUE] : px \in {1, 2}}

\* dataset.read(band_index) (gtiff.py 42): every cell of every band holds a
\* value of its own
Ramp(h) ==
    [h EXCEPT !.arr =
        [i \in DOMAIN h.arr |->
            [shape |-> h.arr[i].shape,
             data |-> [p \in DOMAIN h.arr[i].data |-> 100 * i + 10 * p[1] + p[2]]]]]

InitCrop == \E g \in CropGrid : StartWith(Ramp(LoadAll(<<g>>)))

\* windows: (start, end) per axis, in range for the loaded grid or not
RowWindows ==
    {<<0, CropDim>>, <<1, CropDim>>, <<1, CropDim - 1>>, <<0, 2>>, <<2, CropDim>>,
     <<1, 3>>, <<0 - 1, 2>>, <<2, 1>>}
ColWindows == {<<0, CropDim>>, <<1, 3>>, <<1, CropDim>>}

CropAgain ==
    /\ call.seq < MaxCrops
    /\ \E rows \in RowWindows, cols \in ColWindows, copy \in BOOLEAN :
          CropByPixel(1, rows[1], rows[2], cols[1], cols[2], copy)

SpecCrop == InitCrop /\ [][CropAgain]_vars

\* ------------------------------------------- claims on successive crops
\* a crop that returned, with a window valid for the grid as it was: a grid
\* whose bands had the shape its profile says
ValidCrop ==
    /\ call.op = "crop_by_pixel" /\ call.status = "ok"
    /\ ValidWindow(CropProfile.height, CropProfile.width, call.window)
    /\ \A i \in BandArrs(pre.dset[call.first].bands) :
          pre.arr[i].shape = <<CropProfile.height, CropProfile.width>>

\* the grid at d of heaps H cut to the window w, said cell by cell: cell (r, c)
\* of every band is cell (r + row_start, c + col_start) of the band in H, the
\* origin moves by that many pixels and the pixel size stays
CutTo(H, d, w) ==
    [bands |-> [i \in DOMAIN H.dset[d].bands |->
                  [key |-> H.dset[d].bands[i].key,
                   array |-> [shape |-> <<w[2] - w[1], w[4] - w[3]>>,
                              data |-> [p \in Idx(w[2] - w[1], w[4] - w[3]) |->
                                  H.arr[H.dset[d].bands[i].arr].data[
                                      <<p[1] + w[1], p[2] + w[3]>>]]]]],
     profile |-> [H.prof[H.dset[d].profile] EXCEPT
                    !.height = w[2] - w[1],
                    !.width = w[4] - w[3],
                    !.transform = [@ EXCEPT !.c = @ + w[3] * H.prof[H.dset[d].profile].transform.a,
                                            !.f = @ + w[1] * H.prof[H.dset[d].profile].transform.e]],
     nodata |-> H.dset[d].nodata]

\* C18: after crop_by_pixel with a valid window the pixel size is as before, the
\* origin is the old transform applied to pixel (col_start, row_start), every
\* retained pixel has the world coordinate it had, and the full window leaves
\* bands, width, height and transform as they were
C18_CropKeepsGeoreference ==
    ValidCrop =>
        LET w == call.window
            old == CropProfile.transform
            new == prof[dset[call.first].profile].transform
        IN  /\ new.a = old.a /\ new.e = old.e /\ new.b = old.b /\ new.d = old.d
            /\ new.c = old.a * w[3] + old.b * w[1] + old.c
            /\ new.f = old.d * w[3] + old.e * w[1] + old.f
            /\ \A i \in BandArrs(dset[call.first].bands) :
                  \A p \in DOMAIN arr[i].data :
                     xy2(new, p[1], p[2], "center")
                        = xy2(old, p[1] + w[1], p[2] + w[3], "center")
            /\ GridView(Heaps, call.first) = CutTo(pre, call.first, w)
            /\ (w = <<0, CropProfile.height, 0, CropProfile.width>>) =>
                  GridView(Heaps, call.first) = GridView(pre, call.first)

\* a crop of a window that starts at another row than column, neither of them 0
C18_Witness ==
    /\ ValidCrop
    /\ call.window[1] > 0 /\ call.window[3] > 0 /\ call.window[1] # call.window[3]
    /\ call.window[2] - call.window[1] > 1

\* the window [r1 + r3, r1 + r4) x [c1 + c3, c1 + c4)
Composed(w1, w2) == <<w1[1] + w2[1], w1[1] + w2[2], w1[3] + w2[3], w1[3] + w2[4]>>

\* C19: a crop of a valid window followed by a crop of a window valid for the
\* result gives the bands, width, height and transform of one crop of the
\* original to the composed window
C19_CropsCompose ==
    [][(/\ ValidCrop
        /\ call'.op = "crop_by_pixel" /\ call'.status = "ok"
        /\ ValidWindow(prof[dset[1].profile].height, prof[dset[1].profile].width,
                       call'.window))
       => GridView(Heaps', 1) = CutTo(pre, 1, Composed(call.window, call'.window))]_vars

\* a second crop, off the corner of what a first crop off the corner left
C19_Witness ==
    /\ ValidCrop /\ call.seq = 2
    /\ call.window[1] > 0 /\ call.window[3] > 0
    /\ CropProfile.transform.c > 0 /\ CropProfile.transform.f < 0

\* --------------------------------------------- the specification of clip
\* one grid at the origin with two bands; with or without the profile's
\* "pixel_dimensions" (gtiff.py 49; safe.py sets none)
ClipGrid ==
    {[rows |-> r, cols |-> MaxDim, x |-> 0, y |-> 0, px |-> px,
      crs |-> "EPSG:32610", nodata |-> Some(0 - 1), keys |-> <<"B1", "B2">>,
      fill |-> 0, hole |-> None, pixdim |-> pixdim, res |-> TRUE] :
        r \in {1, MaxDim}, px \in {1, 2}, pixdim \in BOOLEAN}

\* dataset.read(band_index) (gtiff.py 42) of a float raster: the first cell of
\* every band may hold nan
WithNaN(h, on) ==
    IF ~on THEN h
    ELSE [h EXCEPT !.arr = [i \in DOMAIN @ |-> [@[i] EXCEPT !.data[<<0, 0>>] = NaN]]]

InitClip ==
    \E g \in ClipGrid, on \in BOOLEAN : StartWith(WithNaN(Ramp(LoadAll(<<g>>)), on))

\* shapefiles, always given as a path: in the grid's CRS or another one; one
\* rectangle that is the extent of the largest grid, one inside the first
\* pixel, one over the east column, two that meet at a corner, or no shape
ClipShapefiles ==
    {[is_path |-> TRUE, crs |-> crs, shapes |-> shapes] :
        crs \in {"EPSG:32610", "EPSG:4326"},
        shapes \in {<<<<0, 0 - 2 * MaxDim, 2 * MaxDim, 0>>>>,
                    <<<<0, 0 - 1, 1, 0>>>>,
                    <<<<MaxDim - 1, 0 - MaxDim, MaxDim, 0>>>>,
                    <<<<1, 0 - 1, 2, 0>>, <<0, 0 - 2, 1, 0 - 1>>>>,
                    <<>>}}

ClipCall ==
    /\ call.op = "none"
    /\ \E shapefile \in ClipShapefiles, user_crop \in {<<>>, <<TRUE>>, <<FALSE>>},
          edges \in BOOLEAN :
          Clip(1, shapefile, user_crop, edges)

SpecClip == InitClip /\ [][ClipCall]_vars

\* ---------------------------------------------------------- claims on clip
\* C22: clip called with crop = false leaves width, height and transform as
\* they were; clip called with crop = true, or without crop, crops the grid to
\* the window of the shapes' extent
C22_CropFalseSkipsCrop ==
    (call.op = "clip" /\ call.status = "ok") =>
        IF call.flags = <<FALSE>>
        THEN /\ prof[dset[1].profile].width = CropProfile.width
             /\ prof[dset[1].profile].height = CropProfile.height
             /\ prof[dset[1].profile].transform = CropProfile.transform
        ELSE /\ call.window # <<>>
             /\ prof[dset[1].profile] = CutTo(pre, 1, call.window).profile

\* the cell of the grid as it was before the call that became cell p
CellBefore(i, p) ==
    pre.arr[pre.dset[1].bands[i].arr].data[
        IF call.window = <<>> THEN p
        ELSE <<p[1] + call.window[1], p[2] + call.window[3]>>]

\* C23: after clip every cell inside the mask holds the value it held, every
\* cell outside it holds zero, in every band; and a rectangle that is the
\* grid's extent leaves every cell as it was
C23_MaskedOutIsZero ==
    (call.op = "clip" /\ call.status = "ok") =>
        /\ \E edges \in BOOLEAN :
              LET mask == geometry_mask(Val(call.opt).shapes,
                                        <<prof[dset[1].profile].height,
                                          prof[dset[1].profile].width>>,
                                        prof[dset[1].profile].transform,
                                        TRUE, TRUE, edges)
              IN  \A i \in DOMAIN dset[1].bands :
                     \A p \in DOMAIN arr[dset[1].bands[i].arr].data :
                        arr[dset[1].bands[i].arr].data[p] =
                            IF mask[p] THEN CellBefore(i, p) ELSE 0
        /\ (Val(call.opt).shapes = <<<<West, South, East, North>>>>) =>
              GridView(Heaps, 1).bands = GridView(pre, 1).bands

\* ------------------------------------ the specification of resampling
ResDim == 5           \* the largest number of rows and of columns of the grid
MaxResamples == 2     \* resamples made one after the other

\* one grid with one band as safe.py loads it: meta holds the resolution
ResampleGrid ==
    {[rows |-> r, cols |-> c, x |-> 0, y |-> 0, px |-> px, crs |-> "EPSG:32610",
      nodata |-> nd, keys |-> <<"B1">>, fill |-> 0, hole |-> None,
      pixdim |-> FALSE, res |-> TRUE] :
        r \in 1 .. ResDim, c \in {1, ResDim}, px \in {1, 2}, nd \in {None, Some(0 - 1)}}

InitResample == \E g \in ResampleGrid : StartWith(Ramp(LoadAll(<<g>>)))

ResampleAgain ==
    /\ call.seq < MaxResamples
    /\ \E target_resolution \in {1, 2, 3}, new_nodata \in {None, Some(0 - 9)},
          empty_ok \in BOOLEAN :
          RasterioResample(1, target_resolution, new_nodata, empty_ok)

SpecResample == InitResample /\ [][ResampleAgain]_vars

\* C25: a resample to a target resolution followed by a resample back to the
\* resolution the grid had gives a width and a height within 1 pixel of the
\* width and the height the grid had
C25_ResampleRoundTrip ==
    [][(/\ Resampled
        /\ call'.op = "rasterio_resample" /\ call'.status = "ok"
        /\ call'.window[1] = ResolutionBefore)
       => /\ prof'[dset'[1].profile].width - CropProfile.width \in {0 - 1, 0, 1}
          /\ prof'[dset'[1].profile].height - CropProfile.height \in {0 - 1, 0, 1}]_vars

====
